---- MODULE Spec2Model ----
(***************************************************************************)
(* Model of the CI-V command exchange of iu2frl_civ.Device:                *)
(* Device._send_command (frame construction, write, read-with-retry loop,  *)
(* echo / foreign-traffic filtering, status byte) over a serial Transport. *)
(* Byte strings are sequences of 0..255; Python's 0-based index n is       *)
(* written At(s, n).                                                       *)
(***************************************************************************)
EXTENDS Integers, Sequences, FiniteSets, TLC

\* ------------------------------------------------------------------ bounds
\* Largest `attempts` a Device is constructed with in the model.
MaxAttempts == 3
\* Largest number of frames pending on the serial input at once.
MaxPending == 3

\* ------------------------------------------------- protocol byte constants
PREAMBLE == \hFE
TERMINATOR == \hFD
NG == \hFA
OK == \hFB

\* Python index (0-based) into a byte string.
At(s, n) == s[n + 1]

\* ------------------------------------------------------------ state
VARIABLES
    transceiver_address,  \* Device.transceiver_address (bytes)
    controller_address,   \* Device.controller_address (bytes)
    read_attempts,        \* Device._read_attempts
    baudrate,             \* Device._ser.baudrate
    rxbuf,                \* frames the serial port will hand to read_until, in order
    pc,                   \* position of the caller: "idle", "loop", "done"
    call,                 \* arguments of the running _send_command
    command_string,       \* local command_string
    k,                    \* number of values range(_read_attempts) has yielded
    i,                    \* local i: [bound, val]
    reply,                \* local reply
    valid_reply,          \* local valid_reply
    outcome,              \* how the call ended
    io,                   \* Transport operations of the running call, in order
    fn,                   \* the numeric helper applied last ("none" before any)
    args,                 \* its arguments
    ret                   \* what it returned or raised

vars == <<transceiver_address, controller_address, read_attempts, baudrate, rxbuf, pc,
          call, command_string, k, i, reply, valid_reply, outcome, io, fn, args, ret>>

session == <<transceiver_address, controller_address, read_attempts, baudrate>>
locals == <<command_string, k, i, reply, valid_reply>>
helper == <<fn, args, ret>>
exchange == <<rxbuf, pc, call, locals, outcome, io>>

\* ------------------------------------------------------------ inputs
\* Addresses a Device is constructed with ("0x94", "0x1234", and "0xE0", which is
\* also the controller's default).
TransceiverAddresses == {<<\h94>>, <<\h12, \h34>>, <<\hE0>>}
ControllerAddresses == {<<\hE0>>}

\* baudrate: int = 19200
DefaultBaudrate == 19200

NoCall == [is_bytes |-> TRUE, command |-> <<>>, data |-> <<>>, preamble |-> <<>>]

\* The calls of _send_command the model makes.
Calls ==
    { [is_bytes |-> TRUE, command |-> <<\h03>>, data |-> <<>>, preamble |-> <<>>],
      [is_bytes |-> TRUE, command |-> <<\h14, \h01>>, data |-> <<\h00, NG>>,
       preamble |-> <<>>],
      [is_bytes |-> TRUE, command |-> <<\h18, \h01>>, data |-> <<>>,
       preamble |-> <<PREAMBLE, PREAMBLE>>],
      [is_bytes |-> TRUE, command |-> <<>>, data |-> <<>>, preamble |-> <<>>],
      [is_bytes |-> TRUE, command |-> <<\h1A, \h05, \h00, \h01, \h02>>, data |-> <<>>,
       preamble |-> <<>>],
      [is_bytes |-> FALSE, command |-> <<>>, data |-> <<>>, preamble |-> <<>>] }

\* ------------------------------------------------------------ _send_command
\* Mutant of CommandAccepted: the length test lets a 5-byte command through.
CommandAccepted_UpToFive(c) == c.is_bytes /\ Len(c.command) \in {1, 2, 3, 4, 5}

\* The checks that raise ValueError before the frame is built.
CommandAccepted(c) == c.is_bytes /\ Len(c.command) \in {1, 2, 3, 4}

\* Mutant of BuildFrame: source and destination addresses swapped.
BuildFrame_Swapped(c) ==
    c.preamble \o <<PREAMBLE, PREAMBLE>> \o controller_address \o transceiver_address
        \o c.command \o c.data \o <<TERMINATOR>>

\* command_string = preamble + FE FE + transceiver + controller + command + data + FD
BuildFrame(c) ==
    c.preamble \o <<PREAMBLE, PREAMBLE>> \o transceiver_address \o controller_address
        \o c.command \o c.data \o <<TERMINATOR>>

\* Mutant of IsEcho: no candidate is recognised as the echo.
IsEcho_Never(r, cs) == FALSE

\* if reply == command_string
IsEcho(r, cs) == r = cs

\* Mutant of reply_code: the status is taken from the last byte.
reply_code_Last(r) == <<At(r, Len(r) - 1)>>

\* reply[2].to_bytes(1, "big"), reply[3].to_bytes(1, "big"), reply[len(reply) - 2]
target_controller(r) == <<At(r, 2)>>
source_transceiver(r) == <<At(r, 3)>>
reply_code(r) == <<At(r, Len(r) - 2)>>

\* Mutant of NotForUs: `and` in place of `or`.
NotForUs_And(r) ==
    /\ <<At(r, 2)>> # controller_address
    /\ <<At(r, 3)>> # transceiver_address

\* target_controller != self.controller_address or source_transceiver != ...
NotForUs(r) ==
    \/ target_controller(r) # controller_address
    \/ source_transceiver(r) # transceiver_address

\* `i -= 1` inside `for i in range(...)`: rebinds i for the rest of this iteration;
\* the iterator is not affected.
Decrement(v) == [bound |-> TRUE, val |-> v.val - 1]

\* f"... after {i+1} attempts"
AttemptsMade(v) == v.val + 1

\* Mutants of RangeHasNext: the loop runs once more, or once less.
RangeHasNext_OneMore(n) == n <= read_attempts
RangeHasNext_OneLess(n) == n < read_attempts - 1

\* The iterator of range(self._read_attempts) has another value to yield.
RangeHasNext(n) == n < read_attempts

Unbound == [bound |-> FALSE, val |-> 0]

Result(kind, r, code, attempts) ==
    [kind |-> kind, reply |-> r, code |-> code, attempts |-> attempts]
NoResult == Result("none", <<>>, <<>>, 0)

Wr(op, f) == [op |-> op, frame |-> f]

\* ------------------------------------------------------------ Transport input
\* Frames read_until(expected=FD) can return for a session: a timeout with nothing
\* read, a frame cut short by the timeout, and complete frames ending in FD (the
\* OK and NG replies, the reply to command 03 with a frequency, frames of another
\* station, echoes).
Reply(dst, src, body) == <<PREAMBLE, PREAMBLE>> \o dst \o src \o body \o <<TERMINATOR>>
OtherAddress == <<\h00>>

RxFrames ==
    { <<>>,
      <<PREAMBLE>>,
      <<PREAMBLE, PREAMBLE, TERMINATOR>>,
      Reply(controller_address, transceiver_address, <<OK>>),
      Reply(controller_address, transceiver_address, <<NG>>),
      Reply(controller_address, transceiver_address,
            <<\h03, \h00, \h00, \h10, \h14, \h00>>),
      Reply(OtherAddress, transceiver_address, <<OK>>),
      Reply(OtherAddress, transceiver_address, <<NG>>) }
    \cup { BuildFrame(c) : c \in { d \in Calls : CommandAccepted(d) } }

\* ------------------------------------------------------------ actions
Init ==
    /\ transceiver_address \in TransceiverAddresses
    /\ controller_address \in ControllerAddresses
    /\ read_attempts \in 0..MaxAttempts
    /\ baudrate = DefaultBaudrate
    /\ rxbuf = <<>>
    /\ pc = "idle"
    /\ call = NoCall
    /\ command_string = <<>>
    /\ k = 0
    /\ i = Unbound
    /\ reply = <<>>
    /\ valid_reply = FALSE
    /\ outcome = NoResult
    /\ io = <<>>
    /\ fn = "none"
    /\ args = <<>>
    /\ ret = NoResult

\* A frame (or a read timeout) queues up on the serial input.
Arrive(f) ==
    /\ pc = "idle"
    /\ Len(rxbuf) < MaxPending
    /\ rxbuf' = Append(rxbuf, f)
    /\ UNCHANGED <<session, pc, call, locals, outcome, io, helper>>

\* Mutant of SendCommand: the pending input is thrown away before the write.
SendCommand_FlushesInput(c) ==
    /\ pc = "idle"
    /\ call' = c
    /\ IF ~CommandAccepted(c)
       THEN /\ outcome' = Result("ValueError", <<>>, <<>>, 0)
            /\ pc' = "done"
            /\ io' = <<>>
            /\ rxbuf' = rxbuf
            /\ UNCHANGED locals
       ELSE /\ command_string' = BuildFrame(c)
            /\ rxbuf' = <<>>
            /\ \/ /\ io' = <<Wr("write", BuildFrame(c))>>
                  /\ pc' = "loop"
                  /\ outcome' = NoResult
               \/ /\ io' = <<Wr("write_failed", BuildFrame(c))>>
                  /\ pc' = "done"
                  /\ outcome' = Result("IoError", <<>>, <<>>, 0)
            /\ reply' = <<>>
            /\ valid_reply' = FALSE
            /\ k' = 0
            /\ i' = Unbound
    /\ UNCHANGED <<session, helper>>

\* _send_command up to and including self._ser.write(command_string).
SendCommand(c) ==
    /\ pc = "idle"
    /\ call' = c
    /\ IF ~CommandAccepted(c)
       THEN /\ outcome' = Result("ValueError", <<>>, <<>>, 0)
            /\ pc' = "done"
            /\ io' = <<>>
            /\ UNCHANGED locals
       ELSE /\ command_string' = BuildFrame(c)
            /\ \/ /\ io' = <<Wr("write", BuildFrame(c))>>
                  /\ pc' = "loop"
                  /\ outcome' = NoResult
               \/ /\ io' = <<Wr("write_failed", BuildFrame(c))>>
                  /\ pc' = "done"
                  /\ outcome' = Result("IoError", <<>>, <<>>, 0)
            /\ reply' = <<>>
            /\ valid_reply' = FALSE
            /\ k' = 0
            /\ i' = Unbound
    /\ UNCHANGED <<session, rxbuf, helper>>

\* What read_until returns: the next pending frame, or nothing after the timeout.
NextRead == IF rxbuf = <<>> THEN <<>> ELSE Head(rxbuf)
RestRead == IF rxbuf = <<>> THEN <<>> ELSE Tail(rxbuf)

\* One iteration of `for i in range(self._read_attempts)`.
ReadStep ==
    /\ pc = "loop"
    /\ ~valid_reply
    /\ RangeHasNext(k)
    /\ LET r == NextRead
           i0 == [bound |-> TRUE, val |-> k]
       IN /\ rxbuf' = RestRead
          /\ io' = Append(io, Wr("read", r))
          /\ reply' = r
          /\ k' = k + 1
          /\ IF IsEcho(r, command_string)
             THEN /\ i' = Decrement(i0)
                  /\ UNCHANGED <<valid_reply, outcome, pc>>
             ELSE IF Len(r) > 2
             THEN IF Len(r) < 4
                  THEN /\ i' = i0
                       /\ outcome' = Result("IndexError", <<>>, <<>>, 0)
                       /\ pc' = "done"
                       /\ UNCHANGED valid_reply
                  ELSE IF NotForUs(r)
                  THEN /\ i' = Decrement(i0)
                       /\ UNCHANGED <<valid_reply, outcome, pc>>
                  ELSE IF reply_code(r) = <<NG>>
                  THEN /\ i' = i0
                       /\ outcome' = Result("CivCommandException", <<>>, reply_code(r), 0)
                       /\ pc' = "done"
                       /\ UNCHANGED valid_reply
                  ELSE /\ i' = i0
                       /\ valid_reply' = TRUE
                       /\ UNCHANGED <<outcome, pc>>
             ELSE /\ i' = i0
                  /\ UNCHANGED <<valid_reply, outcome, pc>>
    /\ UNCHANGED <<session, call, command_string, helper>>

\* Mutant of ReadFail: the read error is caught and counted as a timeout.
ReadFail_Swallowed ==
    /\ pc = "loop"
    /\ ~valid_reply
    /\ RangeHasNext(k)
    /\ io' = Append(io, Wr("read_failed", <<>>))
    /\ k' = k + 1
    /\ i' = [bound |-> TRUE, val |-> k]
    /\ UNCHANGED <<session, rxbuf, call, command_string, reply, valid_reply, outcome, pc,
                   helper>>

\* self._ser.read_until raises: the exception leaves _send_command.
ReadFail ==
    /\ pc = "loop"
    /\ ~valid_reply
    /\ RangeHasNext(k)
    /\ io' = Append(io, Wr("read_failed", <<>>))
    /\ outcome' = Result("IoError", <<>>, <<>>, 0)
    /\ pc' = "done"
    /\ UNCHANGED <<session, rxbuf, call, locals, helper>>

\* Mutant of LoopExit: the budget left over is stored in the Device.
LoopExit_StoresRemaining ==
    /\ pc = "loop"
    /\ valid_reply \/ ~RangeHasNext(k)
    /\ outcome' =
         IF ~valid_reply
         THEN IF i.bound
              THEN Result("CivTimeoutException", <<>>, <<>>, AttemptsMade(i))
              ELSE Result("UnboundLocalError", <<>>, <<>>, 0)
         ELSE Result("reply", reply, <<>>, 0)
    /\ pc' = "done"
    /\ read_attempts' = read_attempts - k
    /\ UNCHANGED <<transceiver_address, controller_address, baudrate, rxbuf, call, locals,
                   io, helper>>

\* Mutant of LoopExit: `reply` is returned whether or not it was accepted.
LoopExit_ReturnsLast ==
    /\ pc = "loop"
    /\ valid_reply \/ ~RangeHasNext(k)
    /\ outcome' = Result("reply", reply, <<>>, 0)
    /\ pc' = "done"
    /\ UNCHANGED <<session, rxbuf, call, locals, io, helper>>

\* After the loop (exhausted or left by break): raise the timeout or return reply.
LoopExit ==
    /\ pc = "loop"
    /\ valid_reply \/ ~RangeHasNext(k)
    /\ outcome' =
         IF ~valid_reply
         THEN IF i.bound
              THEN Result("CivTimeoutException", <<>>, <<>>, AttemptsMade(i))
              ELSE Result("UnboundLocalError", <<>>, <<>>, 0)
         ELSE Result("reply", reply, <<>>, 0)
    /\ pc' = "done"
    /\ UNCHANGED <<session, rxbuf, call, locals, io, helper>>

\* The call's frame is gone; the caller may issue the next command.
Return ==
    /\ pc = "done"
    /\ pc' = "idle"
    /\ call' = NoCall
    /\ command_string' = <<>>
    /\ k' = 0
    /\ i' = Unbound
    /\ reply' = <<>>
    /\ valid_reply' = FALSE
    /\ outcome' = NoResult
    /\ io' = <<>>
    /\ UNCHANGED <<session, rxbuf, helper>>

Next ==
    \/ \E f \in RxFrames : Arrive(f)
    \/ \E c \in Calls : SendCommand(c)
    \/ ReadStep
    \/ ReadFail
    \/ LoopExit
    \/ Return

Spec == Init /\ [][Next]_vars

TypeOK ==
    /\ read_attempts \in 0..MaxAttempts
    /\ pc \in {"idle", "loop", "done"}
    /\ Len(rxbuf) <= MaxPending
    /\ k \in 0..read_attempts

\* ------------------------------------------------------------ vocabulary of the claims
\* The frames the Transport returns to this call, in order: those already read,
\* then those it would return to further reads.
ReadLog == [n \in 1..(Len(io) - 1) |-> io[n + 1].frame]
Script == ReadLog \o rxbuf
Finished == pc = "done" /\ outcome.kind \notin {"ValueError", "IoError"}

\* Addressed to the controller from the transceiver.
CarriesPair(r) ==
    /\ Len(r) >= 4
    /\ <<r[3]>> = controller_address
    /\ <<r[4]>> = transceiver_address
IsEchoFrame(r) == r = command_string
IsForeignFrame(r) == Len(r) >= 4 /\ ~IsEchoFrame(r) /\ ~CarriesPair(r)
IsValidReplyFrame(r) == ~IsEchoFrame(r) /\ CarriesPair(r) /\ r[Len(r) - 1] # 250
IsNakFrame(r) == ~IsEchoFrame(r) /\ CarriesPair(r) /\ r[Len(r) - 1] = 250
IsShortFrame(r) == Len(r) <= 2

\* C1: when the Transport returns any number of echoes of the outbound frame and
\* then a valid reply, the exchange ends by returning that reply (an echo costs
\* no attempt), for every max_attempts >= 1.
C1_EchoIsFree ==
    (Finished /\ read_attempts >= 1) =>
        \A n \in 0..(Len(Script) - 1) :
            ( /\ \A m \in 1..n : IsEchoFrame(Script[m])
              /\ IsValidReplyFrame(Script[n + 1]) )
            => outcome = Result("reply", Script[n + 1], <<>>, 0)

\* C2: when the Transport returns any number of foreign frames and then a valid
\* reply, the exchange ends by returning that reply (a foreign frame costs no
\* attempt), for every max_attempts >= 1.
C2_ForeignIsFree ==
    (Finished /\ read_attempts >= 1) =>
        \A n \in 0..(Len(Script) - 1) :
            ( /\ \A m \in 1..n : IsForeignFrame(Script[m])
              /\ IsValidReplyFrame(Script[n + 1]) )
            => outcome = Result("reply", Script[n + 1], <<>>, 0)

\* C3: every reply an exchange returns has the controller address at index 2 and
\* the transceiver address at index 3.
C3_ReplyCarriesPair ==
    outcome.kind = "reply" =>
        /\ Len(outcome.reply) >= 4
        /\ <<At(outcome.reply, 2)>> = controller_address
        /\ <<At(outcome.reply, 3)>> = transceiver_address

\* C3 witness: a reply was returned after a foreign frame had been read and dropped.
C3_Witness ==
    /\ pc = "done"
    /\ outcome.kind = "reply"
    /\ \E n \in 1..Len(ReadLog) : IsForeignFrame(ReadLog[n])

\* C4: a candidate that is no echo, carries the session's address pair and has 0xFA
\* in the second-to-last position ends the exchange with CivCommandException
\* carrying 0xFA; it is the last read of the call.
C4_NakShortCircuits ==
    \A n \in 1..Len(ReadLog) :
        (io[n + 1].op = "read" /\ IsNakFrame(ReadLog[n])) =>
            /\ n = Len(ReadLog)
            /\ pc = "done"
            /\ outcome = Result("CivCommandException", <<>>, <<250>>, 0)

\* C4 witness: rejected on a later read while budget remained.
C4_Witness ==
    /\ pc = "done"
    /\ outcome.kind = "CivCommandException"
    /\ Len(ReadLog) >= 2
    /\ IsNakFrame(ReadLog[Len(ReadLog)])
    /\ Len(ReadLog) < read_attempts

\* C5: if every read of a call returns a candidate of length <= 2, the call makes
\* exactly max_attempts reads and then raises the timeout reporting max_attempts
\* attempts (max_attempts >= 1); no reply is accepted on the way.
C5_TimeoutExhaustion ==
    ( /\ pc # "idle"
      /\ read_attempts >= 1
      /\ \A n \in 1..Len(ReadLog) : io[n + 1].op = "read" /\ IsShortFrame(ReadLog[n]) )
    => /\ ~valid_reply
       /\ outcome.kind # "reply"
       /\ Finished =>
            /\ Len(ReadLog) = read_attempts
            /\ outcome = Result("CivTimeoutException", <<>>, <<>>, read_attempts)

\* C5 witness: a timeout after several short reads, both kinds of them.
C5_Witness ==
    /\ pc = "done"
    /\ outcome.kind = "CivTimeoutException"
    /\ read_attempts >= 2
    /\ \A n \in 1..Len(ReadLog) : IsShortFrame(ReadLog[n])
    /\ \E n \in 1..Len(ReadLog) : ReadLog[n] = <<>>
    /\ \E n \in 1..Len(ReadLog) : Len(ReadLog[n]) = 1

\* C6: whenever an exchange ends with the timeout, the attempt count it reports
\* equals max_attempts.
C6_TimeoutReportsBudget ==
    (pc = "done" /\ outcome.kind = "CivTimeoutException") =>
        outcome.attempts = read_attempts

\* The Transport operations of the call: the write (done or failed), the reads.
IsWriteOp(e) == e.op \in {"write", "write_failed"}
IsReadOp(e) == e.op \in {"read", "read_failed"}
PassedValidation == pc # "idle" /\ call.is_bytes /\ Len(call.command) \in 1..4

\* C7 as claimed: a call that passes validation performs exactly one write, before
\* every read, and at least one read follows it.
C7_OneWriteThenReads ==
    (pc = "done" /\ PassedValidation) =>
        /\ Len(io) >= 2
        /\ IsWriteOp(io[1])
        /\ \A n \in 2..Len(io) : IsReadOp(io[n])

\* C7 amended: a call that passes validation performs exactly one write of the
\* outbound frame, first of all its Transport operations; every later operation is
\* a read; at least one read follows when the write succeeded and max_attempts >= 1.
C7_OneWriteFirst ==
    PassedValidation =>
        /\ Len(io) >= 1
        /\ IsWriteOp(io[1])
        /\ io[1].frame = command_string
        /\ \A n \in 2..Len(io) : IsReadOp(io[n])
        /\ (pc = "done" /\ io[1].op = "write" /\ read_attempts >= 1) => Len(io) >= 2

\* C7 witness: one write followed by more than one read.
C7_Witness ==
    /\ pc = "done"
    /\ PassedValidation
    /\ Len(io) >= 3

\* C8: a command whose length is not in {1,2,3,4} ends the call with ValueError
\* and without any Transport operation.
C8_InvalidOpcodeNoIo ==
    (pc # "idle" /\ Len(call.command) \notin {1, 2, 3, 4}) =>
        /\ pc = "done"
        /\ outcome = Result("ValueError", <<>>, <<>>, 0)
        /\ io = <<>>

\* C8 witness: a 5-byte command was refused while input was pending.
C8_Witness ==
    /\ pc = "done"
    /\ Len(call.command) = 5
    /\ outcome.kind = "ValueError"
    /\ rxbuf # <<>>

\* C9: a failed write is the only Transport operation of its call, a failed read
\* is the last one; either ends the call with the IoError and no reply.
C9_IoErrorFatal ==
    \A n \in 1..Len(io) :
        (io[n].op \in {"write_failed", "read_failed"}) =>
            /\ n = Len(io)
            /\ io[n].op = "write_failed" => n = 1
            /\ pc = "done"
            /\ outcome = Result("IoError", <<>>, <<>>, 0)

\* C9 witness: a read failed after an earlier read of the same call, budget left.
C9_Witness ==
    /\ pc = "done"
    /\ Len(io) >= 3
    /\ io[Len(io)].op = "read_failed"
    /\ k < read_attempts

\* C10: the frame written is N wake bytes 0xFE, 0xFE 0xFE, the transceiver address,
\* the controller address, the command, the data and one 0xFD, in this order; with
\* one-byte addresses its length is N + 5 + len(command) + len(data).
C10_FrameLayout ==
    (pc # "idle" /\ io # <<>>) =>
        LET f == io[1].frame
            N == Len(call.preamble)
            t == Len(transceiver_address)
            c == Len(controller_address)
            m == Len(call.command)
            d == Len(call.data)
        IN /\ Len(f) = N + 2 + t + c + m + d + 1
           /\ \A n \in 1..(N + 2) : f[n] = 254
           /\ \A n \in 1..t : f[N + 2 + n] = transceiver_address[n]
           /\ \A n \in 1..c : f[N + 2 + t + n] = controller_address[n]
           /\ \A n \in 1..m : f[N + 2 + t + c + n] = call.command[n]
           /\ \A n \in 1..d : f[N + 2 + t + c + m + n] = call.data[n]
           /\ f[Len(f)] = 253
           /\ (t = 1 /\ c = 1) => Len(f) = N + 5 + m + d

\* C10 witness: a frame with wake bytes and one-byte addresses was written.
C10_Witness ==
    /\ pc = "loop"
    /\ Len(call.preamble) > 0
    /\ Len(transceiver_address) = 1
    /\ io[1].op = "write"

\* ============================================================ Device.__init__
\* A Python str is the sequence of its characters.
HexDigits == <<"0", "1", "2", "3", "4", "5", "6", "7", "8", "9",
               "A", "B", "C", "D", "E", "F">>
LowerHexDigits == <<"0", "1", "2", "3", "4", "5", "6", "7", "8", "9",
                    "a", "b", "c", "d", "e", "f">>
IsHexChar(ch) == \E n \in 1..16 : HexDigits[n] = ch \/ LowerHexDigits[n] = ch
HexValue(ch) == (CHOOSE n \in 1..16 : HexDigits[n] = ch \/ LowerHexDigits[n] = ch) - 1
IsSpace(ch) == ch = " "

\* bytes.fromhex(s): pairs of hex digits, whitespace between the pairs skipped;
\* anything else raises ValueError (ok = FALSE).
RECURSIVE FromHex(_)
FromHex(s) ==
    IF s = <<>> THEN [ok |-> TRUE, bytes |-> <<>>]
    ELSE IF IsSpace(s[1]) THEN FromHex(Tail(s))
    ELSE IF Len(s) >= 2 /\ IsHexChar(s[1]) /\ IsHexChar(s[2])
    THEN LET rest == FromHex(SubSeq(s, 3, Len(s)))
         IN [ok |-> rest.ok,
             bytes |-> IF rest.ok
                       THEN <<16 * HexValue(s[1]) + HexValue(s[2])>> \o rest.bytes
                       ELSE <<>>]
    ELSE [ok |-> FALSE, bytes |-> <<>>]

\* isinstance(a, str) and str(a).startswith("0x")
HasPrefix(a) == a.is_str /\ Len(a.text) >= 2 /\ a.text[1] = "0" /\ a.text[2] = "x"

\* The address one validation block of __init__ stores, or its ValueError.
ParseAddress(a) ==
    IF HasPrefix(a) THEN FromHex(SubSeq(a.text, 3, Len(a.text)))
    ELSE [ok |-> FALSE, bytes |-> <<>>]

Text(t) == [is_str |-> TRUE, text |-> t]
\* Values passed as radio_address / controller_address.
AddressArguments ==
    { Text(<<"0", "x", "9", "4">>),
      Text(<<"0", "x", "E", "0">>),
      Text(<<"0", "x", "e", "0">>),
      Text(<<"0", "x">>),
      Text(<<"0", "x", "1", "2", "3", "4">>),
      Text(<<"0", "x", "9">>),
      Text(<<"0", "x", "Z", "Z">>),
      Text(<<"0", "x", "9", "4", " ">>),
      Text(<<"9", "4">>),
      Text(<<"0", "X", "9", "4">>),
      Text(<<>>),
      [is_str |-> FALSE, text |-> <<>>] }

\* Before Device(...) is called.
InitNew ==
    /\ transceiver_address = <<>>
    /\ controller_address = <<>>
    /\ read_attempts = 0
    /\ baudrate = 0
    /\ rxbuf = <<>>
    /\ pc = "new"
    /\ call = NoCall
    /\ command_string = <<>>
    /\ k = 0
    /\ i = Unbound
    /\ reply = <<>>
    /\ valid_reply = FALSE
    /\ outcome = NoResult
    /\ io = <<>>
    /\ fn = "none"
    /\ args = <<>>
    /\ ret = NoResult

\* Device.__init__(radio_address, controller_address=..., attempts=...): the port
\* is opened, then the two addresses are validated in turn.
Construct(radio_address, controller, attempts) ==
    /\ pc = "new"
    /\ args' = [radio_address |-> radio_address, controller_address |-> controller,
                attempts |-> attempts]
    /\ \/ \* serial.Serial(...) raises: no attribute is set
          /\ io' = <<Wr("open_failed", <<>>)>>
          /\ outcome' = Result("IoError", <<>>, <<>>, 0)
          /\ pc' = "failed"
          /\ UNCHANGED session
       \/ /\ io' = <<Wr("open", <<>>)>>
          /\ baudrate' = DefaultBaudrate
          /\ read_attempts' = attempts
          /\ LET t == ParseAddress(radio_address)
                 c == ParseAddress(controller)
             IN IF ~t.ok
                THEN /\ outcome' = Result("ValueError", <<>>, <<>>, 0)
                     /\ pc' = "failed"
                     /\ UNCHANGED <<transceiver_address, controller_address>>
                ELSE IF ~c.ok
                THEN /\ transceiver_address' = t.bytes
                     /\ outcome' = Result("ValueError", <<>>, <<>>, 0)
                     /\ pc' = "failed"
                     /\ UNCHANGED controller_address
                ELSE /\ transceiver_address' = t.bytes
                     /\ controller_address' = c.bytes
                     /\ outcome' = NoResult
                     /\ pc' = "idle"
    /\ UNCHANGED <<rxbuf, call, locals, fn, ret>>

NextNew ==
    \E r \in AddressArguments, c \in AddressArguments, a \in 0..MaxAttempts :
        Construct(r, c, a)

SpecNew == InitNew /\ [][NextNew]_vars

\* C11: a constructed Device holds a transceiver address and a controller address
\* of exactly one byte each; any other input makes the construction fail.
C11_AddressIsOneByte ==
    pc = "idle" =>
        /\ Len(transceiver_address) = 1
        /\ Len(controller_address) = 1

\* C12: when the construction fails on an invalid address, the Transport was not
\* opened.
C12_InvalidAddressBeforeIo ==
    (pc = "failed" /\ outcome.kind = "ValueError") => io = <<>>

\* ============================================================ numeric helpers
\* A Python int n is [neg, hi, lo] with |n| = hi * Limb + lo and 0 <= lo < Limb, so
\* that values beyond 32 bits (ten and more decimal digits) are represented.
Limb == 10 ^ 5
MkInt(neg, hi, lo) ==
    LET h == hi + (lo \div Limb)
        l == lo % Limb
    IN [neg |-> neg /\ (h # 0 \/ l # 0), hi |-> h, lo |-> l]

\* s[::-1]
Reversed(s) == [j \in 1..Len(s) |-> s[Len(s) + 1 - j]]

\* s.rjust(width, fill)
Rjust(s, width, fill) ==
    IF Len(s) >= width THEN s ELSE [j \in 1..(width - Len(s)) |-> fill] \o s

\* The decimal digits of a natural number, as characters.
RECURSIVE DecDigits(_)
DecDigits(n) ==
    IF n < 10 THEN <<HexDigits[n + 1]>>
    ELSE DecDigits(n \div 10) \o <<HexDigits[(n % 10) + 1]>>

\* str(n)
Str(n) ==
    (IF n.neg THEN <<"-">> ELSE <<>>)
        \o (IF n.hi = 0 THEN DecDigits(n.lo)
            ELSE DecDigits(n.hi) \o Rjust(DecDigits(n.lo), 5, "0"))

\* f"{byte:02X}"
Format02X(byte) == <<HexDigits[(byte \div 16) + 1], HexDigits[(byte % 16) + 1]>>

\* Mutant of ValidLiteral: hex letters pass as digits whatever the base.
ValidLiteral_AnyHex(s, base) == s # <<>> /\ \A j \in 1..Len(s) : IsHexChar(s[j])

\* int(s, base) accepts the digits s: non-empty, every character a digit of the base.
ValidLiteral(s, base) ==
    /\ s # <<>>
    /\ \A j \in 1..Len(s) : IsHexChar(s[j]) /\ HexValue(s[j]) < base

\* The value of a string of digits (a few digits, so it fits).
RECURSIVE IntOfDigits(_, _)
IntOfDigits(s, base) ==
    IF s = <<>> THEN 0
    ELSE base * IntOfDigits(SubSeq(s, 1, Len(s) - 1), base) + HexValue(s[Len(s)])

Returned(v) == [kind |-> "return", value |-> v]
Raised(e) == [kind |-> e, value |-> <<>>]

\* int(hx, 16) for hx = "0x" + two characters.
IntHex(hx) ==
    LET d == SubSeq(hx, 3, Len(hx))
    IN IF ValidLiteral(d, 16) THEN Returned(IntOfDigits(d, 16)) ELSE Raised("ValueError")

\* int(s) for a string of digits of any length.
IntDec(s) ==
    IF ValidLiteral(s, 10)
    THEN LET cut == IF Len(s) > 5 THEN Len(s) - 5 ELSE 0
         IN Returned(MkInt(FALSE, IntOfDigits(SubSeq(s, 1, cut), 10),
                           IntOfDigits(SubSeq(s, cut + 1, Len(s)), 10)))
    ELSE Raised("ValueError")

\* Concatenation of the strings of a list: "".join(...)
RECURSIVE Join(_)
Join(l) == IF l = <<>> THEN <<>> ELSE Head(l) \o Join(Tail(l))

\* Mutant of decode_frequency: the bytes are not reversed.
decode_frequency_NotReversed(bcd_bytes) ==
    IntDec(Join([j \in 1..Len(bcd_bytes) |-> Format02X(bcd_bytes[j])]))

\* Device._decode_frequency
decode_frequency(bcd_bytes) ==
    LET reversed_bcd == Reversed(bcd_bytes)
        frequency_bcd == Join([j \in 1..Len(reversed_bcd) |-> Format02X(reversed_bcd[j])])
    IN IntDec(frequency_bcd)

\* Mutant of encode_frequency: the two digits of each byte are swapped.
encode_frequency_NibblesSwapped(frequency) ==
    LET inverted_freq == Reversed(Rjust(Str(frequency), 10, "0"))
        parsed == [j \in 1..5 |->
                     IntHex(<<"0", "x", At(inverted_freq, 2 * j - 2),
                              At(inverted_freq, 2 * j - 1)>>)]
    IN IF \A j \in 1..5 : parsed[j].kind = "return"
       THEN Returned([j \in 1..5 |-> parsed[j].value])
       ELSE Raised("ValueError")

\* Device._encode_frequency
encode_frequency(frequency) ==
    LET frequency_str == Rjust(Str(frequency), 10, "0")
        inverted_freq == Reversed(frequency_str)
        hex_list == [j \in 1..5 |->
                       <<"0", "x", At(inverted_freq, 2 * j - 1), At(inverted_freq, 2 * j - 2)>>]
        parsed == [j \in 1..5 |-> IntHex(hex_list[j])]
    IN IF \A j \in 1..5 : parsed[j].kind = "return"
       THEN Returned([j \in 1..5 |-> parsed[j].value])
       ELSE Raised("ValueError")

\* ------------------------------------------------------------ helper inputs
\* Largest multiple of 10^10 added to a frequency argument.
MaxOver == 1
\* A decimal pair, and the frequencies written as five pairs, least significant first.
Pairs == 0..99
PairBackgrounds ==
    { <<0, 0, 0, 0, 0>>, <<67, 45, 23, 1, 0>>, <<90, 78, 56, 34, 12>>,
      <<99, 99, 99, 99, 99>> }
PairVectors ==
    { [b EXCEPT ![pos] = v] : b \in PairBackgrounds, pos \in 1..5, v \in Pairs }
OfPairs(neg, over, p) ==
    MkInt(neg, (p[3] \div 10) + 10 * p[4] + 1000 * p[5] + Limb * over,
          p[1] + 100 * p[2] + 10000 * (p[3] % 10))
Frequencies ==
    { OfPairs(neg, over, p) : neg \in BOOLEAN, over \in 0..MaxOver, p \in PairVectors }

\* Five-byte arguments of _decode_frequency: every byte value at every position.
ByteBackgrounds == { <<0, 0, 0, 0, 0>>, <<\h67, \h45, \h23, \h01, \h00>> }
BcdInputs ==
    { [b EXCEPT ![pos] = v] : b \in ByteBackgrounds, pos \in 1..5, v \in 0..255 }

\* ------------------------------------------------------------ helper calls
EncodeFrequency(frequency) ==
    /\ fn = "none"
    /\ fn' = "_encode_frequency"
    /\ args' = [frequency |-> frequency]
    /\ ret' = encode_frequency(frequency)
    /\ UNCHANGED <<session, exchange>>

\* decode(encode(f)): the bytes returned by _encode_frequency are decoded.
DecodeEncoded ==
    /\ fn = "_encode_frequency"
    /\ ret.kind = "return"
    /\ fn' = "_decode_frequency"
    /\ args' = [frequency |-> args.frequency, bcd_bytes |-> ret.value]
    /\ ret' = decode_frequency(ret.value)
    /\ UNCHANGED <<session, exchange>>

DecodeFrequency(bcd_bytes) ==
    /\ fn = "none"
    /\ fn' = "_decode_frequency"
    /\ args' = [bcd_bytes |-> bcd_bytes]
    /\ ret' = decode_frequency(bcd_bytes)
    /\ UNCHANGED <<session, exchange>>

\* Mutant of bytes_to_int: the second byte is added as a plain number.
bytes_to_int_Plain(first_byte, second_byte) == Returned(first_byte * 100 + second_byte)

\* Device._bytes_to_int
bytes_to_int(first_byte, second_byte) ==
    LET second == IntDec(Format02X(second_byte))
    IN IF second.kind = "return"
       THEN Returned(first_byte * 100 + second.value.lo)
       ELSE second

\* A Python float is the exact quotient num / den (rounding is not modelled).
Float(n) == [num |-> n, den |-> 1]
Quot(a, b) == [num |-> a, den |-> b]
Plus(q, n) == [num |-> q.num + n * q.den, den |-> q.den]
First(S) == CHOOSE j \in S : \A m \in S : j <= m

\* Mutant of linear_interpolate: the segment test takes the points of a segment
\* in the wrong order, so no segment is ever found.
linear_interpolate_NoSegment(raw_value, points) ==
    LET exact == { j \in 1..Len(points) : raw_value = points[j][1] }
    IN IF exact # {} THEN Returned(Float(points[First(exact)][2]))
       ELSE IF points = <<>> THEN Raised("IndexError")
       ELSE IF raw_value < points[1][1] THEN Returned(Float(points[1][2]))
       ELSE IF raw_value > points[Len(points)][1] THEN Returned(Float(points[Len(points)][2]))
       ELSE Returned(Float(-1))

\* Device._linear_interpolate; points is a list of (raw, value).
linear_interpolate(raw_value, points) ==
    LET exact == { j \in 1..Len(points) : raw_value = points[j][1] }
        between == { j \in 1..(Len(points) - 1) :
                        points[j][1] < raw_value /\ raw_value < points[j + 1][1] }
    IN IF exact # {} THEN Returned(Float(points[First(exact)][2]))
       ELSE IF between # {}
       THEN LET x0 == points[First(between)][1]
                y0 == points[First(between)][2]
                x1 == points[First(between) + 1][1]
                y1 == points[First(between) + 1][2]
            IN Returned(Plus(Quot((y1 - y0) * (raw_value - x0), x1 - x0), y0))
       ELSE IF points = <<>> THEN Raised("IndexError")
       ELSE IF raw_value < points[1][1] THEN Returned(Float(points[1][2]))
       ELSE IF raw_value > points[Len(points)][1] THEN Returned(Float(points[Len(points)][2]))
       ELSE Returned(Float(-1))

\* Mutant of convert_to_range: the degenerate range returns old_min.
convert_to_range_OldMin(input_value, old_min, old_max, new_min, new_max) ==
    LET old_range == old_max - old_min
        new_range == new_max - new_min
    IN IF old_range = 0 THEN Returned(Float(old_min))
       ELSE Returned(Plus(Quot((input_value - old_min) * new_range, old_range), new_min))

\* Device._convert_to_range
convert_to_range(input_value, old_min, old_max, new_min, new_max) ==
    LET old_range == old_max - old_min
        new_range == new_max - new_min
    IN IF old_range = 0 THEN Returned(Float(new_min))
       ELSE Returned(Plus(Quot((input_value - old_min) * new_range, old_range), new_min))

\* ------------------------------------------------------------ more helper inputs
\* Breakpoint lists: up to MaxPoints points, raw in 0..MaxPointX strictly
\* increasing, value in 0..MaxPointY; and two of the tables of the meter readers.
MaxPoints == 3
MaxPointX == 4
MaxPointY == 2
StrictlyIncreasing(points) ==
    \A j \in 1..(Len(points) - 1) : points[j][1] < points[j + 1][1]
PointLists ==
    { pts \in UNION { [1..n -> (0..MaxPointX) \X (0..MaxPointY)] : n \in 1..MaxPoints } :
        StrictlyIncreasing(pts) }
    \cup { <<<<0, 0>>, <<120, 100>>>>, <<<<0, 0>>, <<143, 50>>, <<213, 100>>>> }
RawValues == (-1..(MaxPointX + 1)) \cup {-5, 60, 100, 143, 500}

\* Arguments of _convert_to_range.
MaxRangeValue == 2
RangeValues == -1..MaxRangeValue
RangeArguments ==
    (RangeValues \X RangeValues \X RangeValues \X RangeValues \X RangeValues)
    \cup { <<v, 10, 10, 0, 100>> : v \in RangeValues \cup {10, 255} }
    \cup { <<v, 0, 255, 0, 100>> : v \in {0, 51, 128, 255} }

BytesToInt(first_byte, second_byte) ==
    /\ fn = "none"
    /\ fn' = "_bytes_to_int"
    /\ args' = [first_byte |-> first_byte, second_byte |-> second_byte]
    /\ ret' = bytes_to_int(first_byte, second_byte)
    /\ UNCHANGED <<session, exchange>>

LinearInterpolate(raw_value, points) ==
    /\ fn = "none"
    /\ fn' = "_linear_interpolate"
    /\ args' = [raw_value |-> raw_value, points |-> points]
    /\ ret' = linear_interpolate(raw_value, points)
    /\ UNCHANGED <<session, exchange>>

ConvertToRange(a) ==
    /\ fn = "none"
    /\ fn' = "_convert_to_range"
    /\ args' = [input_value |-> a[1], old_min |-> a[2], old_max |-> a[3],
                new_min |-> a[4], new_max |-> a[5]]
    /\ ret' = convert_to_range(a[1], a[2], a[3], a[4], a[5])
    /\ UNCHANGED <<session, exchange>>

\* A constructed Device on which a numeric helper is called.
InitHelper ==
    /\ Init
    /\ transceiver_address = <<\h94>>
    /\ read_attempts = MaxAttempts

\* No helper has been called yet.
Fresh == fn = "none"

NextHelper ==
    \/ Fresh /\ \E f \in Frequencies : EncodeFrequency(f)
    \/ DecodeEncoded
    \/ Fresh /\ \E b \in BcdInputs : DecodeFrequency(b)
    \/ Fresh /\ \E a \in 0..255, b \in 0..255 : BytesToInt(a, b)
    \/ Fresh /\ \E r \in RawValues, pts \in PointLists : LinearInterpolate(r, pts)
    \/ Fresh /\ \E a \in RangeArguments : ConvertToRange(a)

SpecHelper == InitHelper /\ [][NextHelper]_vars

\* ------------------------------------------------------------ claims on the helpers
\* 10,000 <= f <= 74,000,000
InRange(f) ==
    /\ ~f.neg
    /\ f.hi > 0 \/ f.lo >= 10000
    /\ f.hi < 740 \/ (f.hi = 740 /\ f.lo = 0)
\* f has at most ten decimal digits and is not negative.
TenDigits(f) == ~f.neg /\ f.hi < 100000
\* (f div 100^n) mod 100 for n in 0..4.
PairOf(f, n) ==
    CASE n = 0 -> f.lo % 100
      [] n = 1 -> (f.lo \div 100) % 100
      [] n = 2 -> (f.lo \div 10000) + 10 * (f.hi % 10)
      [] n = 3 -> (f.hi \div 10) % 100
      [] n = 4 -> (f.hi \div 1000) % 100
IsRoundTrip == fn = "_decode_frequency" /\ "frequency" \in DOMAIN args
BadNibble(b) == (b \div 16) > 9 \/ (b % 16) > 9

\* C13: for every f with 10,000 <= f <= 74,000,000, encode(f) is exactly 5 bytes
\* and decode(encode(f)) = f.
C13_RoundTrip ==
    /\ (fn = "_encode_frequency" /\ InRange(args.frequency)) =>
            ret.kind = "return" /\ Len(ret.value) = 5
    /\ (IsRoundTrip /\ InRange(args.frequency)) =>
            Len(args.bcd_bytes) = 5 /\ ret = Returned(args.frequency)

\* C13 witness: 74,000,000 was encoded and decoded.
C13_Witness ==
    /\ IsRoundTrip
    /\ args.frequency = [neg |-> FALSE, hi |-> 740, lo |-> 0]
    /\ ret.kind = "return"

\* C14: for every f in 0..9,999,999,999, byte n (n = 0..4) of encode(f) has the
\* tens digit of (f div 100^n) mod 100 in its high nibble and the units digit in
\* its low nibble; encode(1234567) = 67 45 23 01 00 (hex).
C14_BcdPacking ==
    (fn = "_encode_frequency" /\ TenDigits(args.frequency)) =>
        /\ ret.kind = "return"
        /\ Len(ret.value) = 5
        /\ \A n \in 0..4 :
              ret.value[n + 1] = 16 * (PairOf(args.frequency, n) \div 10)
                                    + (PairOf(args.frequency, n) % 10)
        /\ args.frequency = [neg |-> FALSE, hi |-> 12, lo |-> 34567] =>
              ret.value = <<103, 69, 35, 1, 0>>

\* C14 witness: a ten-digit frequency beyond 32 bits was encoded.
C14_Witness ==
    /\ fn = "_encode_frequency"
    /\ args.frequency = [neg |-> FALSE, hi |-> 99999, lo |-> 99999]
    /\ ret.kind = "return"

\* C15: encode fails, returning no bytes, for every negative value and for every
\* value of more than ten decimal digits.
C15_EncodeRejects ==
    (fn = "_encode_frequency" /\ ~TenDigits(args.frequency)) => ret.kind # "return"

\* C16: decode of five bytes fails when a nibble of a byte exceeds 9, and returns
\* an integer only when all ten nibbles are decimal digits.
C16_DecodeRejectsNonBcd ==
    (fn = "_decode_frequency" /\ Len(args.bcd_bytes) = 5) =>
        LET bad == \E j \in 1..5 : BadNibble(args.bcd_bytes[j])
        IN /\ bad => ret = Raised("ValueError")
           /\ ~bad => ret.kind = "return"

\* C16 witness: five bytes with only one low nibble above 9 were refused.
C16_Witness ==
    /\ fn = "_decode_frequency"
    /\ args.bcd_bytes = <<0, 0, 26, 0, 0>>
    /\ ret.kind = "ValueError"

\* C17: for a first byte a and a second byte b with both nibbles <= 9 the result
\* is 100*a + 10*(b div 16) + (b mod 16).
C17_BytePair ==
    (fn = "_bytes_to_int" /\ ~BadNibble(args.second_byte)) =>
        ret = Returned(100 * args.first_byte + 10 * (args.second_byte \div 16)
                        + (args.second_byte % 16))

\* C17 witness: the largest reading, 255 and 0x99.
C17_Witness ==
    /\ fn = "_bytes_to_int"
    /\ args.first_byte = 255
    /\ args.second_byte = 153
    /\ ret.kind = "return"
    /\ ret.value = 25599

\* C18 as claimed: the byte-pair conversion returns a number for every pair of
\* bytes and raises no error.
C18_NeverFails ==
    fn = "_bytes_to_int" => ret.kind = "return"

\* C18 amended: the conversion returns a number exactly when both nibbles of the
\* second byte are <= 9, and raises ValueError for every other second byte.
C18_FailsOnNonBcd ==
    fn = "_bytes_to_int" =>
        /\ ~BadNibble(args.second_byte) => ret.kind = "return"
        /\ BadNibble(args.second_byte) => ret = Raised("ValueError")

\* C18 witness: the second byte 0x1A was refused.
C18_Witness ==
    /\ fn = "_bytes_to_int"
    /\ args.second_byte = 26
    /\ ret.kind = "ValueError"

\* C19: over points strictly increasing in raw (at least one), a raw equal to a
\* breakpoint gives its value, a raw between two adjacent breakpoints gives
\* y0 + (y1-y0)*(raw-x0)/(x1-x0), a raw below the first gives the first value,
\* above the last the last value, and -1 is never returned; for [(0,0),(120,100)]
\* -5 gives 0, 60 gives 50 and 500 gives 100.
C19_Interpolation ==
    (fn = "_linear_interpolate" /\ args.points # <<>> /\ StrictlyIncreasing(args.points)) =>
        LET pts == args.points
            raw == args.raw_value
            v == ret.value
        IN /\ ret.kind = "return"
           /\ v.den # 0
           /\ \A j \in 1..Len(pts) : raw = pts[j][1] => v.num = pts[j][2] * v.den
           /\ \A j \in 1..(Len(pts) - 1) :
                 (pts[j][1] < raw /\ raw < pts[j + 1][1]) =>
                    v.num * (pts[j + 1][1] - pts[j][1]) =
                        ( pts[j][2] * (pts[j + 1][1] - pts[j][1])
                          + (pts[j + 1][2] - pts[j][2]) * (raw - pts[j][1]) ) * v.den
           /\ raw < pts[1][1] => v.num = pts[1][2] * v.den
           /\ raw > pts[Len(pts)][1] => v.num = pts[Len(pts)][2] * v.den
           /\ v.num # -1 * v.den
           /\ pts = <<<<0, 0>>, <<120, 100>>>> =>
                 /\ raw = -5 => v.num = 0
                 /\ raw = 60 => v.num = 50 * v.den
                 /\ raw = 500 => v.num = 100 * v.den

\* C19 witness: 60 was interpolated over [(0,0),(120,100)].
C19_Witness ==
    /\ fn = "_linear_interpolate"
    /\ args.points = <<<<0, 0>>, <<120, 100>>>>
    /\ args.raw_value = 60
    /\ ret.kind = "return"

\* C20: with old_max = old_min the result is new_min for every value; otherwise it
\* is (value - old_min) * (new_max - new_min) / (old_max - old_min) + new_min, which
\* maps old_min to new_min and old_max to new_max.
C20_Rescale ==
    fn = "_convert_to_range" =>
        LET v == ret.value
            old_range == args.old_max - args.old_min
        IN /\ ret.kind = "return"
           /\ v.den # 0
           /\ old_range = 0 => v.num = args.new_min * v.den
           /\ old_range # 0 =>
                 /\ v.num * old_range =
                        ( (args.input_value - args.old_min) * (args.new_max - args.new_min)
                          + args.new_min * old_range ) * v.den
                 /\ args.input_value = args.old_min => v.num = args.new_min * v.den
                 /\ args.input_value = args.old_max => v.num = args.new_max * v.den

\* C20 witness: rescale(255, 10, 10, 0, 100) returned.
C20_Witness ==
    /\ fn = "_convert_to_range"
    /\ args.input_value = 255
    /\ args.old_min = 10 /\ args.old_max = 10
    /\ args.new_min = 0 /\ args.new_max = 100
    /\ ret.kind = "return"

\* ============================================================ Device operations
\* The rates serial.Serial is opened with: the rows of power_on's table, and one
\* that is in none of them.
Baudrates == {115200, 57600, 38400, 19200, 9600, 4800}

\* Mutant of wakeup_preamble_count: the 9600 row is missing.
wakeup_preamble_count_No9600(rate) ==
    IF rate = 115200 THEN 150
    ELSE IF rate = 57600 THEN 75
    ELSE IF rate = 38400 THEN 50
    ELSE IF rate = 19200 THEN 25
    ELSE 7

\* power_on: the if / elif chain on self._ser.baudrate.
wakeup_preamble_count(rate) ==
    IF rate = 115200 THEN 150
    ELSE IF rate = 57600 THEN 75
    ELSE IF rate = 38400 THEN 50
    ELSE IF rate = 19200 THEN 25
    ELSE IF rate = 9600 THEN 13
    ELSE 7

\* b"\xfe" * n
Repeat(byte, n) == [j \in 1..n |-> byte]

\* The _send_command calls of power_on, power_off and read_operating_frequency.
PowerOnCall ==
    [is_bytes |-> TRUE, command |-> <<\h18, \h01>>, data |-> <<>>,
     preamble |-> Repeat(PREAMBLE, wakeup_preamble_count(baudrate))]
PowerOffCall ==
    [is_bytes |-> TRUE, command |-> <<\h18, \h00>>, data |-> <<>>, preamble |-> <<>>]
ReadFrequencyCall ==
    [is_bytes |-> TRUE, command |-> <<\h03>>, data |-> <<>>, preamble |-> <<>>]

\* reply[a:b]
Slice(s, a, b) == SubSeq(s, a + 1, IF b < Len(s) THEN b ELSE Len(s))

\* The int -1.
MinusOne == MkInt(TRUE, 0, 1)

\* `return self._send_command(...)`: the reply is returned, an exception leaves
\* the method.
Propagated(o) == IF o.kind = "reply" THEN Returned(o.reply) ELSE Raised(o.kind)

\* read_operating_frequency: try: decode reply[5:10] / except: return -1. The bare
\* except catches whatever _send_command or _decode_frequency raised.
FrequencyOrMinusOne(o) ==
    IF o.kind = "reply"
    THEN LET d == decode_frequency(Slice(o.reply, 5, 10))
         IN IF d.kind = "return" THEN d ELSE Returned(MinusOne)
    ELSE Returned(MinusOne)

\* What the serial port hands to the reads of these operations: a timeout, the OK
\* and NG replies, the frequency 14.100.000 Hz, a frequency field that is not BCD,
\* a reply to command 03 whose last data byte is FA, a frame of another station,
\* and the echo of the frequency request.
DeviceFrames ==
    { <<>>,
      Reply(controller_address, transceiver_address, <<OK>>),
      Reply(controller_address, transceiver_address, <<NG>>),
      Reply(controller_address, transceiver_address,
            <<\h03, \h00, \h00, \h10, \h14, \h00>>),
      Reply(controller_address, transceiver_address,
            <<\h03, \h0A, \h00, \h00, \h00, \h00>>),
      Reply(controller_address, transceiver_address,
            <<\h03, \h00, \h00, \h10, \h14, NG>>),
      Reply(OtherAddress, transceiver_address, <<OK>>),
      BuildFrame(ReadFrequencyCall) }

\* A constructed Device("0x94", baudrate=...) with nothing pending.
InitDevice ==
    /\ transceiver_address = <<\h94>>
    /\ controller_address \in ControllerAddresses
    /\ read_attempts \in 0..MaxAttempts
    /\ baudrate \in Baudrates
    /\ rxbuf = <<>>
    /\ pc = "idle"
    /\ call = NoCall
    /\ command_string = <<>>
    /\ k = 0
    /\ i = Unbound
    /\ reply = <<>>
    /\ valid_reply = FALSE
    /\ outcome = NoResult
    /\ io = <<>>
    /\ fn = "none"
    /\ args = <<>>
    /\ ret = NoResult

\* power_on(), power_off(), read_operating_frequency() up to the write.
PowerOn == SendCommand(PowerOnCall)
PowerOff == SendCommand(PowerOffCall)
ReadOperatingFrequency == SendCommand(ReadFrequencyCall)

\* The three methods from the end of _send_command to their own end.
PowerOnReturns ==
    /\ pc = "done"
    /\ fn = "none"
    /\ call = PowerOnCall
    /\ fn' = "power_on"
    /\ args' = <<>>
    /\ ret' = Propagated(outcome)
    /\ UNCHANGED <<session, exchange>>

PowerOffReturns ==
    /\ pc = "done"
    /\ fn = "none"
    /\ call = PowerOffCall
    /\ fn' = "power_off"
    /\ args' = <<>>
    /\ ret' = Propagated(outcome)
    /\ UNCHANGED <<session, exchange>>

ReadOperatingFrequencyReturns ==
    /\ pc = "done"
    /\ fn = "none"
    /\ call = ReadFrequencyCall
    /\ fn' = "read_operating_frequency"
    /\ args' = <<>>
    /\ ret' = FrequencyOrMinusOne(outcome)
    /\ UNCHANGED <<session, exchange>>

NextDevice ==
    \/ \E f \in DeviceFrames : Arrive(f)
    \/ PowerOn
    \/ PowerOff
    \/ ReadOperatingFrequency
    \/ ReadStep
    \/ ReadFail
    \/ LoopExit
    \/ PowerOnReturns
    \/ PowerOffReturns
    \/ ReadOperatingFrequencyReturns

SpecDevice == InitDevice /\ [][NextDevice]_vars

\* ------------------------------------------------------------ claims on the operations
\* The number of wake bytes the claim gives for a rate.
WakeBytes ==
    CASE baudrate = 115200 -> 150
      [] baudrate = 57600 -> 75
      [] baudrate = 38400 -> 50
      [] baudrate = 19200 -> 25
      [] baudrate = 9600 -> 13
      [] OTHER -> 7

\* C21: the frame power_on writes is N bytes FE, then FE FE, the two addresses,
\* 18 01 and FD, with N = 150, 75, 50, 25, 13 for 115200, 57600, 38400, 19200, 9600
\* baud and 7 for any other rate; the frame of any other operation starts with
\* the two bytes FE FE of the frame itself (N = 0).
C21_WakeSequence ==
    (pc # "idle" /\ io # <<>>) =>
        LET frame == io[1].frame
            tail == <<PREAMBLE, PREAMBLE>> \o transceiver_address \o controller_address
                        \o call.command \o call.data \o <<TERMINATOR>>
        IN IF call.command = <<\h18, \h01>>
           THEN /\ Len(frame) = WakeBytes + Len(tail)
                /\ \A n \in 1..WakeBytes : frame[n] = PREAMBLE
                /\ SubSeq(frame, WakeBytes + 1, Len(frame)) = tail
                /\ call.data = <<>>
           ELSE frame = tail

\* C21 witness: power_on at 9600 baud has written its 13 + 7 bytes and returned
\* the radio's reply.
C21_Witness ==
    /\ fn = "power_on"
    /\ baudrate = 9600
    /\ io[1].op = "write"
    /\ Len(io[1].frame) = 20
    /\ ret.kind = "return"

\* C22: when the exchange an operation started fails with CivCommandException,
\* CivTimeoutException or a Transport error, the operation ends with that failure.
C22_NoFailureSwallowed ==
    ( /\ fn \in {"power_on", "power_off", "read_operating_frequency"}
      /\ outcome.kind \in {"CivCommandException", "CivTimeoutException", "IoError"} )
    => ret.kind = outcome.kind

\* C31: when the candidate read is a reply to the data query 03 (it carries the
\* Device's address pair and the opcode 03, followed by data) whose last data byte
\* is FA, the exchange returns it as the reply.
C31_DataReplyEndingInFA ==
    ( /\ pc = "done"
      /\ call = ReadFrequencyCall
      /\ Len(io) >= 2
      /\ LET r == io[Len(io)].frame
         IN /\ io[Len(io)].op = "read"
            /\ r # command_string
            /\ CarriesPair(r)
            /\ Len(r) > 6
            /\ At(r, 4) = \h03
            /\ At(r, Len(r) - 2) = NG )
    => outcome = Result("reply", io[Len(io)].frame, <<>>, 0)

\* ============================================================ further claims on _send_command
\* C23: no step of an exchange, whatever its outcome, changes the Device's
\* addresses, its attempt budget or its baud rate; the loop counter counts the
\* reads of the running call only, and a call starts with the counter at 0, that
\* is with the whole budget.
C23_SessionImmutable ==
    [][ /\ session' = session
        /\ pc = "loop" => k = Len(ReadLog)
        /\ (pc = "idle" /\ pc' = "loop") => (k' = 0 /\ Len(io') = 1) ]_vars

\* C23 witness: a call has used up the whole budget, which the Device still holds.
C23_Witness ==
    /\ pc = "done"
    /\ outcome.kind = "CivTimeoutException"
    /\ k = MaxAttempts
    /\ read_attempts = MaxAttempts

\* C24: if the first n reads (n < max_attempts) return candidates of length <= 2
\* and the next returns a valid reply, the call returns that reply after exactly
\* n + 1 reads and one write.
C24_RetryRereads ==
    Finished =>
        \A n \in 0..(Len(Script) - 1) :
            ( /\ n < read_attempts
              /\ \A m \in 1..n : IsShortFrame(Script[m])
              /\ IsValidReplyFrame(Script[n + 1]) )
            => /\ outcome = Result("reply", Script[n + 1], <<>>, 0)
               /\ Len(ReadLog) = n + 1
               /\ io[1] = Wr("write", command_string)
               /\ \A j \in 2..Len(io) : io[j].op = "read"

\* C24 witness: a reply returned by the last read of the budget, after a timeout
\* and a one-byte candidate.
C24_Witness ==
    /\ pc = "done"
    /\ outcome.kind = "reply"
    /\ Len(ReadLog) = read_attempts
    /\ Len(ReadLog) >= 3
    /\ \E m \in 1..2 : ReadLog[m] = <<>>
    /\ \E m \in 1..2 : Len(ReadLog[m]) = 1

\* C25: with max_attempts >= 1, whatever the reads return, a call that passed
\* validation ends with a reply, CivCommandException or CivTimeoutException.
C25_TypedOutcome ==
    ( /\ pc = "done"
      /\ PassedValidation
      /\ read_attempts >= 1
      /\ \A n \in 1..Len(io) : io[n].op \in {"write", "read"} )
    => outcome.kind \in {"reply", "CivCommandException", "CivTimeoutException"}

\* C26: with max_attempts = 0 a call that passed validation writes the frame,
\* reads nothing and ends with CivTimeoutException.
C26_ZeroBudgetTimesOut ==
    ( /\ pc = "done"
      /\ PassedValidation
      /\ read_attempts = 0
      /\ io[1].op = "write" )
    => /\ Len(io) = 1
       /\ outcome.kind = "CivTimeoutException"

C28_ReplyPostcondition ==
    /\ outcome.kind = "reply" =>
         /\ Len(ReadLog) >= 1
         /\ io[Len(io)] = Wr("read", outcome.reply)
         /\ Len(outcome.reply) > 2
         /\ outcome.reply # io[1].frame
         /\ At(outcome.reply, Len(outcome.reply) - 2) # NG
    /\ ( /\ Finished
         /\ \/ Len(ReadLog) = 0
            \/ IsEchoFrame(ReadLog[Len(ReadLog)])
            \/ IsForeignFrame(ReadLog[Len(ReadLog)])
            \/ IsShortFrame(ReadLog[Len(ReadLog)]) )
       => outcome.kind # "reply"

\* C28 witness: a reply returned after the echo was read and dropped.
C28_Witness ==
    /\ pc = "done"
    /\ outcome.kind = "reply"
    /\ Len(ReadLog) = 2
    /\ IsEchoFrame(ReadLog[1])
    /\ outcome.reply = ReadLog[2]

\* C29: a candidate with FA in the second-to-last position that is the echo of the
\* frame written, or that does not carry the Device's address pair, does not end
\* the call with CivCommandException.
C29_Precedence ==
    \A n \in 1..Len(ReadLog) :
        LET r == ReadLog[n]
        IN ( /\ io[n + 1].op = "read"
             /\ Len(r) >= 4
             /\ At(r, Len(r) - 2) = NG
             /\ r = io[1].frame \/ ~CarriesPair(r) )
           => ~(n = Len(ReadLog) /\ outcome.kind = "CivCommandException")

\* C29 witness: the echo of a frame whose data ends in FA and a foreign frame with
\* status FA were both read, and the call went on to return a reply.
C29_Witness ==
    /\ pc = "done"
    /\ outcome.kind = "reply"
    /\ call.data = <<\h00, NG>>
    /\ \E n \in 1..Len(ReadLog) : ReadLog[n] = io[1].frame
    /\ \E n \in 1..Len(ReadLog) :
           /\ IsForeignFrame(ReadLog[n])
           /\ At(ReadLog[n], Len(ReadLog[n]) - 2) = NG

\* A frame addressed to the controller from the transceiver whose status is not FA.
IsPendingReply(r) == CarriesPair(r) /\ At(r, Len(r) - 2) # NG

\* C30 as claimed: a frame with the Device's address pair and a status other than
\* FA that is pending when the call is made is returned as the call's reply.
C30_PendingFrameReturned ==
    (Finished /\ Script # <<>> /\ IsPendingReply(Script[1])) =>
        outcome = Result("reply", Script[1], <<>>, 0)

\* C30 amended: a call discards no pending input; with max_attempts >= 1, when the
\* first read of a call finds such a frame pending and the frame is not identical
\* to the frame just written, that frame is the first candidate, it is accepted,
\* and the call returns it after that one read.
C30_PendingFrameFirst ==
    [][ /\ (pc = "idle" /\ pc' # "idle") => rxbuf' = rxbuf
        /\ ( /\ pc = "loop"
             /\ Len(io) = 1
             /\ Len(io') = 2
             /\ io'[2].op = "read"
             /\ rxbuf # <<>>
             /\ IsPendingReply(Head(rxbuf))
             /\ Head(rxbuf) # command_string )
           => /\ io'[2].frame = Head(rxbuf)
              /\ rxbuf' = Tail(rxbuf)
              /\ reply' = Head(rxbuf)
              /\ valid_reply'
        /\ (pc = "loop" /\ valid_reply) =>
              /\ pc' = "done"
              /\ outcome' = Result("reply", reply, <<>>, 0)
              /\ io' = io
        /\ ( /\ Finished
             /\ read_attempts >= 1
             /\ Script # <<>>
             /\ IsPendingReply(Script[1])
             /\ Script[1] # command_string )
           => /\ outcome = Result("reply", Script[1], <<>>, 0)
              /\ Len(ReadLog) = 1 ]_vars

\* C30 witness: the first read of a call returned a frame that carries the opcode
\* of another command, while more input was pending behind it.
C30_Witness ==
    /\ pc = "done"
    /\ outcome.kind = "reply"
    /\ Len(ReadLog) = 1
    /\ rxbuf # <<>>
    /\ call.command = <<\h14, \h01>>
    /\ transceiver_address # controller_address
    /\ At(outcome.reply, 4) = \h03

\* ============================================================ setters
\* OperatingMode.LSB.value .. OperatingMode.RTTYR.value
OperatingModes == 0..8

\* bytes(n) for an int n >= 0: n bytes of value zero.
BytesOfInt(n) == [j \in 1..n |-> 0]

\* bytes([...]): every item must be in range(0, 256).
BytesOfList(l) ==
    IF \A j \in 1..Len(l) : l[j] \in 0..255 THEN Returned(l) ELSE Raised("ValueError")

\* The list [1 - 3] that edge_number is looked up in.
EdgeNumbers == {1 - 3}

\* 10_000 <= frequency <= 74_000_000
FrequencyAccepted(f) ==
    /\ ~f.neg
    /\ f.hi > 0 \/ f.lo >= 10000
    /\ f.hi < 740 \/ (f.hi = 740 /\ f.lo = 0)

\* Arguments of the two setters: every operating mode; edge numbers around 1..3
\* and the one in the list; frequencies at, inside and just outside the limits.
EdgeArguments == {1 - 3, 0, 1, 2, 3, 4}
FrequencyArguments ==
    { MkInt(FALSE, 0, 9999), MkInt(FALSE, 0, 10000), MkInt(FALSE, 141, 0),
      MkInt(FALSE, 740, 0), MkInt(FALSE, 740, 1) }
SetterArguments ==
    { [op |-> "set_operating_mode", mode |-> m] : m \in OperatingModes }
    \cup { [op |-> "set_scope_fixed_edge_frequencies", edge_number |-> e,
            lower_frequency |-> lo, higher_frequency |-> hi] :
           e \in EdgeArguments, lo \in FrequencyArguments, hi \in FrequencyArguments }

\* What the radio answers to a setter: nothing, OK, NG.
SetterFrames ==
    { <<>>,
      Reply(controller_address, transceiver_address, <<OK>>),
      Reply(controller_address, transceiver_address, <<NG>>) }

\* A constructed Device("0x94") / IC706MKII("0x94") and the call about to be made.
InitSetters ==
    /\ transceiver_address = <<\h94>>
    /\ controller_address \in ControllerAddresses
    /\ read_attempts \in 0..MaxAttempts
    /\ baudrate = DefaultBaudrate
    /\ rxbuf = <<>>
    /\ pc = "idle"
    /\ call = NoCall
    /\ command_string = <<>>
    /\ k = 0
    /\ i = Unbound
    /\ reply = <<>>
    /\ valid_reply = FALSE
    /\ outcome = NoResult
    /\ io = <<>>
    /\ fn = "none"
    /\ args \in SetterArguments
    /\ ret = NoResult

\* Utils.send_command: the exchange of the spec, as Device._send_command runs it.
Utils_send_command(c) == SendCommand(c)

\* IC706MKII.set_operating_mode(mode)
SetOperatingMode ==
    /\ args.op = "set_operating_mode"
    /\ Utils_send_command([is_bytes |-> TRUE, command |-> <<\h06>>,
                           data |-> BytesOfInt(args.mode), preamble |-> <<>>])

\* Device.set_scope_fixed_edge_frequencies(edge_number, lower_frequency,
\* higher_frequency)
SetScopeFixedEdgeFrequencies ==
    /\ pc = "idle"
    /\ fn = "none"
    /\ args.op = "set_scope_fixed_edge_frequencies"
    /\ LET lower_freq_bytes == encode_frequency(args.lower_frequency)
           higher_freq_bytes == encode_frequency(args.higher_frequency)
           edge == BytesOfList(<<args.edge_number>>)
       IN IF \/ args.edge_number \notin EdgeNumbers
             \/ ~FrequencyAccepted(args.lower_frequency)
             \/ ~FrequencyAccepted(args.higher_frequency)
             \/ lower_freq_bytes.kind # "return"
             \/ higher_freq_bytes.kind # "return"
             \/ edge.kind # "return"
          THEN /\ fn' = "set_scope_fixed_edge_frequencies"
               /\ ret' = Raised("ValueError")
               /\ UNCHANGED <<session, exchange, args>>
          ELSE SendCommand([is_bytes |-> TRUE, command |-> <<\h27, \h1E>>,
                            data |-> edge.value \o lower_freq_bytes.value
                                        \o higher_freq_bytes.value,
                            preamble |-> <<>>])

NextSetters ==
    \/ \E f \in SetterFrames : Arrive(f)
    \/ SetOperatingMode
    \/ SetScopeFixedEdgeFrequencies
    \/ ReadStep
    \/ ReadFail
    \/ LoopExit

SpecSetters == InitSetters /\ [][NextSetters]_vars

\* ------------------------------------------------------------ claims on the setters
\* The call has been made.
Called == pc # "idle" \/ fn # "none"

\* C32: set_operating_mode(mode) passes opcode 06 and the one byte `mode` to the
\* exchange, which writes FE FE, the two addresses, 06, that byte and FD; the
\* frame identifies the mode.
C32_ModeByte ==
    (args.op = "set_operating_mode" /\ Called) =>
        /\ call.command = <<\h06>>
        /\ call.data = <<args.mode>>
        /\ io # <<>>
        /\ io[1].frame = <<PREAMBLE, PREAMBLE>> \o transceiver_address
                            \o controller_address \o <<\h06, args.mode, TERMINATOR>>

\* The five BCD bytes of f, least significant pair first.
Bcd(f) == [n \in 1..5 |-> 16 * (PairOf(f, n - 1) \div 10) + (PairOf(f, n - 1) % 10)]

\* C33: with edge_number in 1..3 and both frequencies within 10 kHz..74 MHz the
\* call starts one exchange with opcode 27 1E and the edge byte followed by the BCD
\* bytes of lower and higher as data; with any other argument it raises
\* ValueError and does no I/O.
C33_ScopeEdges ==
    (args.op = "set_scope_fixed_edge_frequencies" /\ Called) =>
        IF /\ args.edge_number \in {1, 2, 3}
           /\ InRange(args.lower_frequency)
           /\ InRange(args.higher_frequency)
        THEN /\ fn = "none"
             /\ call.command = <<\h27, \h1E>>
             /\ call.data = <<args.edge_number>> \o Bcd(args.lower_frequency)
                                \o Bcd(args.higher_frequency)
             /\ io # <<>>
             /\ io[1].frame = command_string
        ELSE /\ ret = Raised("ValueError")
             /\ io = <<>>

====
